---- MODULE Spec2Model ----
(***************************************************************************)
(* State machine of server.js: the socket.io chat relay.  One action per   *)
(* socket event handler; the fs.writeFile callback of 'image upload' is a  *)
(* separate step because it runs after the handler has returned.           *)
(*                                                                         *)
(* Spec runs every handler.  SpecStore, SpecSession, SpecUpload and        *)
(* SpecSenders run the same actions from the same Init with the clients    *)
(* restricted to a group of events, which keeps the state space of a       *)
(* property about those events small enough for three messages.            *)
(*                                                                         *)
(* inp and out observe a step: the handler that ran and on which socket,   *)
(* and the events it emitted with the sockets each one is delivered to.    *)
(***************************************************************************)
EXTENDS Integers, Sequences, FiniteSets, TLC

\* ---------------------------------------------------------------- bounds
MaxMessages == 2      \* cap on messageCount (ids handed out)
MaxPending  == 1      \* cap on disk writes in flight

\* ------------------------------------------------------- input universes
Conns == {"s1", "s2"}                 \* socket.id values, each used once
Names == {"", " ", "alice"}           \* payloads of 'set username'
NewTexts == {"yo"}                    \* data.newText of 'edit message'
Times == {"09:00 AM"}                 \* what toLocaleTimeString returns

Null  == "<null>"                     \* JS null (currentUsername before a claim)
Undef == "<undefined>"                \* JS undefined, as a string field
NaN   == -1                           \* Number() of a non-numeric string
NoId  == -2                           \* undefined replyToId

\* payloads of 'chat message' (unvalidated): a plain message and a reply
ChatInputs == { [text |-> "hi", replyToId |-> NoId, replyToText |-> Undef],
                [text |-> "yo", replyToId |-> 0,    replyToText |-> "hi"] }

\* raw message ids as they arrive on the wire: numbers or strings
NumId(n) == [k |-> "num", n |-> n, s |-> ""]
StrId(s) == [k |-> "str", n |-> 0, s |-> s]
RawIds == { NumId(0), StrId("1"), StrId("x") } \cup { NumId(n) : n \in 2 .. MaxMessages - 1 }

\* data.fileName, as character sequences
FileNames == { <<"a", ".", "p", "n", "g">>,
               <<"p", ".", "E", "X", "E">>,
               <<"b", ".", "t", ".", "P", "N", "G">> }

VARIABLES messageCount,     \* let messageCount
          messagesHistory,  \* let messagesHistory
          onlineUsers,      \* let onlineUsers: username -> socket.id
          currentUsername,  \* per connection closure variable
          status,           \* per socket: "idle", "connected", "disconnected"
          pending,          \* fs.writeFile calls whose callback has not run
          inp,              \* the inbound event handled by the last step
          out               \* the events emitted by the last step

vars == <<messageCount, messagesHistory, onlineUsers, currentUsername,
          status, pending, inp, out>>

\* ------------------------------------------------------------ JS helpers
\* mutant: only the empty string is falsy
TruthyButNull(u) == u # ""

\* truthiness of a username value: null and "" are falsy
Truthy(u) == u # Null /\ u # ""

\* Number(x) for the raw ids above
ToNumber(raw) ==
  IF raw.k = "num" THEN raw.n
  ELSE CASE raw.s = ""  -> 0
         [] raw.s = "0" -> 0
         [] raw.s = "1" -> 1
         [] raw.s = "2" -> 2
         [] OTHER       -> NaN

\* a === b on numbers
StrictEq(a, b) == a # NaN /\ b # NaN /\ a = b

\* messagesHistory.findIndex(m => m.id === Number(id)); 0 stands for -1
FindIndex(log, raw) ==
  LET hits == { i \in 1 .. Len(log) : StrictEq(log[i].id, ToNumber(raw)) }
  IN  IF hits = {} THEN 0 ELSE CHOOSE i \in hits : \A j \in hits : i <= j

\* mutant: the first element is removed, whatever the index
SpliceFirst(log, i) == SubSeq(log, 2, Len(log))

\* messagesHistory.splice(i, 1)
Splice(log, i) == SubSeq(log, 1, i - 1) \o SubSeq(log, i + 1, Len(log))

\* mutant: the entry stays
DeleteKeyNone(f, key) == f

\* delete obj[key]
DeleteKey(f, key) == [n \in DOMAIN f \ {key} |-> f[n]]

\* mutant: an existing entry is kept
SetKeyIfFree(f, key, val) ==
  IF key \in DOMAIN f THEN f
  ELSE [n \in DOMAIN f \cup {key} |-> IF n = key THEN val ELSE f[n]]

\* obj[key] = val
SetKey(f, key, val) == [n \in DOMAIN f \cup {key} |-> IF n = key THEN val ELSE f[n]]

\* let onlineUsers = {}
EmptyMap == [n \in {} |-> Null]

\* data.fileName.split('.').pop(): the part after the last '.', or the whole name
LastDot(name) ==
  LET dots == { i \in 1 .. Len(name) : name[i] = "." }
  IN  IF dots = {} THEN 0 ELSE CHOOSE i \in dots : \A j \in dots : j <= i

\* String.prototype.toLowerCase on one character
LowerChar(ch) ==
  CASE ch = "E" -> "e" [] ch = "X" -> "x" [] ch = "G" -> "g" [] ch = "I" -> "i"
    [] ch = "F" -> "f" [] ch = "P" -> "p" [] ch = "N" -> "n" [] ch = "J" -> "j"
    [] OTHER -> ch

ToLowerCase(str) == [i \in 1 .. Len(str) |-> LowerChar(str[i])]

\* data.fileName.split('.').pop().toLowerCase()
Extension(name) == ToLowerCase(SubSeq(name, LastDot(name) + 1, Len(name)))

\* mutant: "exe" is on the allow-list
AllowedExtensionsExe ==
  { <<"p", "n", "g">>, <<"j", "p", "g">>, <<"j", "p", "e", "g">>,
    <<"g", "i", "f">>, <<"w", "e", "b", "p">>, <<"a", "v", "i", "f">>, <<"e", "x", "e">> }

\* the allow-list of the 'image upload' handler
AllowedExtensions == { <<"p", "n", "g">>, <<"j", "p", "g">>, <<"j", "p", "e", "g">>,
                       <<"g", "i", "f">>, <<"w", "e", "b", "p">>, <<"a", "v", "i", "f">> }

\* `/uploads/${newFileName}`; the time-plus-random stem is abstracted to "f"
ImageUrl(ext) ==
  CASE ext = <<"p", "n", "g">>      -> "/uploads/f.png"
    [] ext = <<"j", "p", "g">>      -> "/uploads/f.jpg"
    [] ext = <<"j", "p", "e", "g">> -> "/uploads/f.jpeg"
    [] ext = <<"g", "i", "f">>      -> "/uploads/f.gif"
    [] ext = <<"w", "e", "b", "p">> -> "/uploads/f.webp"
    [] ext = <<"a", "v", "i", "f">> -> "/uploads/f.avif"
    [] OTHER                        -> "/uploads/f"

\* socket ids are fresh per connection; they are handed out in this order
SocketOrder(c) == IF c = "s1" THEN 1 ELSE 2

\* sockets that io.emit reaches
Connected == { c \in Conns : status[c] = "connected" }

\* io.emit: every connected socket
ToAll == Connected

\* mutant: the reply goes to every connected socket
ToSenderAll(c) == Connected

\* socket.emit: the socket of the handler
ToSender(c) == {c}

\* mutant: the relay uses io.emit
ToOthersAll(c) == Connected

\* socket.broadcast.emit: every connected socket but the handler's
ToOthers(c) == Connected \ {c}

Emit(ev, payload, to) == [ev |-> ev, payload |-> payload, to |-> to]

\* ------------------------------------------------------------------ Init
Init ==
  /\ messageCount = 0
  /\ messagesHistory = <<>>
  /\ onlineUsers = EmptyMap
  /\ currentUsername = [c \in Conns |-> Null]
  /\ status = [c \in Conns |-> "idle"]
  /\ pending = <<>>
  /\ inp = [type |-> "listen", conn |-> Null]
  /\ out = <<>>

\* io.on('connection')
Connection(c) ==
  /\ status[c] = "idle"
  /\ \A d \in Conns : SocketOrder(d) < SocketOrder(c) => status[d] # "idle"
  /\ status' = [status EXCEPT ![c] = "connected"]
  /\ inp' = [type |-> "connection", conn |-> c]
  /\ out' = <<>>
  /\ UNCHANGED <<messageCount, messagesHistory, onlineUsers, currentUsername, pending>>

\* mutant: a name that is in the registry is refused
ClaimAcceptedIfFree(username, cur) ==
  (username # Null /\ username # "") /\ username # cur /\ username \notin DOMAIN onlineUsers

\* the condition of the 'set username' handler
ClaimAccepted(username, cur) == Truthy(username) /\ username # cur

\* socket.on('set username')
\* mutant: a rename rewrites the author of the sender's earlier messages
SetUsernameRelabel(c, username) ==
  /\ status[c] = "connected"
  /\ inp' = [type |-> "set username", conn |-> c]
  /\ IF ClaimAccepted(username, currentUsername[c])
     THEN /\ onlineUsers' =
               SetKey(IF Truthy(currentUsername[c])
                      THEN DeleteKey(onlineUsers, currentUsername[c])
                      ELSE onlineUsers,
                      username, c)
          /\ currentUsername' = [currentUsername EXCEPT ![c] = username]
          /\ messagesHistory' =
               [i \in 1 .. Len(messagesHistory) |->
                  IF messagesHistory[i].user = currentUsername[c]
                  THEN [messagesHistory[i] EXCEPT !.user = username]
                  ELSE messagesHistory[i]]
          /\ out' = << Emit("load history", messagesHistory', ToSender(c)) >>
     ELSE /\ out' = <<>>
          /\ UNCHANGED <<onlineUsers, currentUsername, messagesHistory>>
  /\ UNCHANGED <<messageCount, status, pending>>

SetUsername(c, username) ==
  /\ status[c] = "connected"
  /\ inp' = [type |-> "set username", conn |-> c]
  /\ IF ClaimAccepted(username, currentUsername[c])
     THEN /\ onlineUsers' =
               SetKey(IF Truthy(currentUsername[c])
                      THEN DeleteKey(onlineUsers, currentUsername[c])
                      ELSE onlineUsers,
                      username, c)
          /\ currentUsername' = [currentUsername EXCEPT ![c] = username]
          /\ out' = << Emit("load history", messagesHistory, ToSender(c)) >>
     ELSE /\ out' = <<>>
          /\ UNCHANGED <<onlineUsers, currentUsername>>
  /\ UNCHANGED <<messageCount, messagesHistory, status, pending>>

\* mutant: the check of currentUsername is missing
DisconnectUnchecked(c) ==
  /\ status[c] = "connected"
  /\ status' = [status EXCEPT ![c] = "disconnected"]
  /\ inp' = [type |-> "disconnect", conn |-> c]
  /\ onlineUsers' = DeleteKey(onlineUsers, currentUsername[c])
  /\ out' = << Emit("user disconnected", currentUsername[c], ToAll \ {c}) >>
  /\ UNCHANGED <<messageCount, messagesHistory, currentUsername, pending>>

\* socket.on('disconnect')
Disconnect(c) ==
  /\ status[c] = "connected"
  /\ status' = [status EXCEPT ![c] = "disconnected"]
  /\ inp' = [type |-> "disconnect", conn |-> c]
  /\ IF Truthy(currentUsername[c])
     THEN /\ onlineUsers' = DeleteKey(onlineUsers, currentUsername[c])
          \* io.emit; the closing socket has already left the namespace
          /\ out' = << Emit("user disconnected", currentUsername[c], ToAll \ {c}) >>
     ELSE /\ out' = <<>>
          /\ UNCHANGED onlineUsers
  /\ UNCHANGED <<messageCount, messagesHistory, currentUsername, pending>>

\* mutant: the id is taken from the length of the log
TextMessageByLength(count, user, msg, time) ==
  [id |-> Len(messagesHistory), user |-> user, text |-> msg.text,
   replyToId |-> msg.replyToId, replyToText |-> msg.replyToText,
   timestamp |-> time, seen |-> FALSE]

\* mutant: the counter is incremented before it is read
TextMessagePreIncrement(count, user, msg, time) ==
  [id |-> count + 1, user |-> user, text |-> msg.text,
   replyToId |-> msg.replyToId, replyToText |-> msg.replyToText,
   timestamp |-> time, seen |-> FALSE]

\* the messageData object literal of the 'chat message' handler
TextMessage(count, user, msg, time) ==
  [id |-> count, user |-> user, text |-> msg.text,
   replyToId |-> msg.replyToId, replyToText |-> msg.replyToText,
   timestamp |-> time, seen |-> FALSE]

\* socket.on('chat message')
\* mutant: the message is put in front of the log (unshift for push)
ChatMessageUnshift(c, msg, time) ==
  /\ status[c] = "connected"
  /\ Truthy(currentUsername[c]) => messageCount < MaxMessages
  /\ inp' = [type |-> "chat message", conn |-> c]
  /\ IF ~Truthy(currentUsername[c])
     THEN /\ out' = <<>>
          /\ UNCHANGED <<messageCount, messagesHistory>>
     ELSE LET messageData == TextMessage(messageCount, currentUsername[c], msg, time)
          IN  /\ messageCount' = messageCount + 1
              /\ messagesHistory' = <<messageData>> \o messagesHistory
              /\ out' = << Emit("chat message", messageData, ToAll) >>
  /\ UNCHANGED <<onlineUsers, currentUsername, status, pending>>

ChatMessage(c, msg, time) ==
  /\ status[c] = "connected"
  /\ Truthy(currentUsername[c]) => messageCount < MaxMessages
  /\ inp' = [type |-> "chat message", conn |-> c]
  /\ IF ~Truthy(currentUsername[c])
     THEN /\ out' = <<>>
          /\ UNCHANGED <<messageCount, messagesHistory>>
     ELSE LET messageData == TextMessage(messageCount, currentUsername[c], msg, time)
          IN  /\ messageCount' = messageCount + 1
              /\ messagesHistory' = Append(messagesHistory, messageData)
              /\ out' = << Emit("chat message", messageData, ToAll) >>
  /\ UNCHANGED <<onlineUsers, currentUsername, status, pending>>

\* mutant: the author check is missing
IsAuthorAnyone(log, idx, cur) == idx # 0

\* the condition shared by the 'delete message' and 'edit message' handlers
IsAuthor(log, idx, cur) == idx # 0 /\ log[idx].user = cur

\* socket.on('delete message')
DeleteMessage(c, messageId) ==
  LET messageIndex == FindIndex(messagesHistory, messageId)
  IN  /\ status[c] = "connected"
      /\ inp' = [type |-> "delete message", conn |-> c]
      /\ IF IsAuthor(messagesHistory, messageIndex, currentUsername[c])
         THEN /\ messagesHistory' = Splice(messagesHistory, messageIndex)
              /\ out' = << Emit("delete message", messageId, ToAll) >>
         ELSE /\ out' = <<>>
              /\ UNCHANGED messagesHistory
      /\ UNCHANGED <<messageCount, onlineUsers, currentUsername, status, pending>>

\* mutant: an edit also resets the seen flag
SetTextUnseen(log, idx, newText) == [log EXCEPT ![idx].text = newText, ![idx].seen = FALSE]

\* message.text = data.newText
SetText(log, idx, newText) == [log EXCEPT ![idx].text = newText]

\* socket.on('edit message')
EditMessage(c, id, newText) ==
  LET idx == FindIndex(messagesHistory, id)
  IN  /\ status[c] = "connected"
      /\ inp' = [type |-> "edit message", conn |-> c]
      /\ IF IsAuthor(messagesHistory, idx, currentUsername[c])
         THEN /\ messagesHistory' = SetText(messagesHistory, idx, newText)
              /\ out' = << Emit("edit message confirmed",
                                [id |-> id, newText |-> newText], ToAll) >>
         ELSE /\ out' = <<>>
              /\ UNCHANGED messagesHistory
      /\ UNCHANGED <<messageCount, onlineUsers, currentUsername, status, pending>>

\* mutant: the seen flag is not consulted
CanMarkSeenAgain(log, idx, cur) == idx # 0 /\ log[idx].user # cur

\* the condition of the 'mark seen' handler
CanMarkSeen(log, idx, cur) == idx # 0 /\ ~log[idx].seen /\ log[idx].user # cur

\* socket.on('mark seen')
MarkSeen(c, messageId) ==
  LET idx == FindIndex(messagesHistory, messageId)
  IN  /\ status[c] = "connected"
      /\ inp' = [type |-> "mark seen", conn |-> c]
      /\ IF CanMarkSeen(messagesHistory, idx, currentUsername[c])
         THEN /\ messagesHistory' = [messagesHistory EXCEPT ![idx].seen = TRUE]
              /\ out' = << Emit("message seen", messagesHistory[idx].id, ToAll) >>
         ELSE /\ out' = <<>>
              /\ UNCHANGED messagesHistory
      /\ UNCHANGED <<messageCount, onlineUsers, currentUsername, status, pending>>

\* socket.on('typing') and socket.on('stop typing')
Typing(c, ev, username) ==
  /\ status[c] = "connected"
  /\ inp' = [type |-> ev, conn |-> c]
  /\ out' = << Emit(ev, username, ToOthers(c)) >>
  /\ UNCHANGED <<messageCount, messagesHistory, onlineUsers, currentUsername,
                 status, pending>>

\* mutant: the id is reserved when the upload arrives
ImageUploadReserve(c, fileName) ==
  LET extension == Extension(fileName)
      accepted  == Truthy(currentUsername[c]) /\ extension \in AllowedExtensions
  IN  /\ status[c] = "connected"
      /\ accepted => Len(pending) < MaxPending
      /\ inp' = [type |-> "image upload", conn |-> c]
      /\ out' = <<>>
      /\ pending' = IF accepted
                    THEN Append(pending, [conn |-> c, ext |-> extension])
                    ELSE pending
      /\ messageCount' = IF accepted THEN messageCount + 1 ELSE messageCount
      /\ UNCHANGED <<messagesHistory, onlineUsers, currentUsername, status>>

\* socket.on('image upload'), up to the call of fs.writeFile
ImageUpload(c, fileName) ==
  LET extension == Extension(fileName)
      accepted  == Truthy(currentUsername[c]) /\ extension \in AllowedExtensions
  IN  /\ status[c] = "connected"
      /\ accepted => Len(pending) < MaxPending
      /\ inp' = [type |-> "image upload", conn |-> c]
      /\ out' = <<>>
      /\ pending' = IF accepted
                    THEN Append(pending, [conn |-> c, ext |-> extension])
                    ELSE pending
      /\ UNCHANGED <<messageCount, messagesHistory, onlineUsers, currentUsername, status>>

\* the messageData object literal of the fs.writeFile callback
ImageMessage(count, user, ext, time) ==
  [id |-> count, user |-> user, text |-> ImageUrl(ext),
   replyToId |-> NoId, replyToText |-> Undef,
   timestamp |-> time, seen |-> FALSE]

\* fs.writeFile callback with err == null, for the i-th write in flight
\* mutant: the callback drops the message of a socket that has left
WriteDoneIfConnected(i, time) ==
  /\ i \in 1 .. Len(pending)
  /\ messageCount < MaxMessages
  /\ LET c == pending[i].conn
         messageData == ImageMessage(messageCount, currentUsername[c], pending[i].ext, time)
     IN  /\ inp' = [type |-> "write done", conn |-> c]
         /\ IF status[c] = "connected"
            THEN /\ messageCount' = messageCount + 1
                 /\ messagesHistory' = Append(messagesHistory, messageData)
                 /\ out' = << Emit("chat message", messageData, ToAll) >>
            ELSE /\ out' = <<>>
                 /\ UNCHANGED <<messageCount, messagesHistory>>
  /\ pending' = Splice(pending, i)
  /\ UNCHANGED <<onlineUsers, currentUsername, status>>

WriteDone(i, time) ==
  /\ i \in 1 .. Len(pending)
  /\ messageCount < MaxMessages
  /\ LET c == pending[i].conn
         messageData == ImageMessage(messageCount, currentUsername[c], pending[i].ext, time)
     IN  /\ inp' = [type |-> "write done", conn |-> c]
         /\ messageCount' = messageCount + 1
         /\ messagesHistory' = Append(messagesHistory, messageData)
         /\ out' = << Emit("chat message", messageData, ToAll) >>
  /\ pending' = Splice(pending, i)
  /\ UNCHANGED <<onlineUsers, currentUsername, status>>

\* fs.writeFile callback with err set
WriteFail(i) ==
  /\ i \in 1 .. Len(pending)
  /\ inp' = [type |-> "write failed", conn |-> pending[i].conn]
  /\ out' = <<>>
  /\ pending' = Splice(pending, i)
  /\ UNCHANGED <<messageCount, messagesHistory, onlineUsers, currentUsername, status>>

\* ------------------------------------------------- next-state relations
\* every handler registered in io.on('connection') and the writeFile callback
Next ==
  \/ \E c \in Conns : Connection(c)
  \/ \E c \in Conns, n \in Names : SetUsername(c, n)
  \/ \E c \in Conns : Disconnect(c)
  \/ \E c \in Conns, msg \in ChatInputs, time \in Times : ChatMessage(c, msg, time)
  \/ \E c \in Conns, id \in RawIds : DeleteMessage(c, id)
  \/ \E c \in Conns, id \in RawIds, text \in NewTexts : EditMessage(c, id, text)
  \/ \E c \in Conns, id \in RawIds : MarkSeen(c, id)
  \/ \E c \in Conns, ev \in {"typing", "stop typing"}, n \in Names : Typing(c, ev, n)
  \/ \E c \in Conns, f \in FileNames : ImageUpload(c, f)
  \/ \E i \in 1 .. MaxPending, time \in Times : WriteDone(i, time)
  \/ \E i \in 1 .. MaxPending : WriteFail(i)

Spec == Init /\ [][Next]_vars

\* the message store handlers, with clients that stay connected and send no images
NextStore ==
  \/ \E c \in Conns : Connection(c)
  \/ \E c \in Conns, n \in Names : SetUsername(c, n)
  \/ \E c \in Conns, msg \in ChatInputs, time \in Times : ChatMessage(c, msg, time)
  \/ \E c \in Conns, id \in RawIds : DeleteMessage(c, id)
  \/ \E c \in Conns, id \in RawIds, text \in NewTexts : EditMessage(c, id, text)
  \/ \E c \in Conns, id \in RawIds : MarkSeen(c, id)

SpecStore == Init /\ [][NextStore]_vars

\* the session handlers, with text messages that are sent and deleted
NextSession ==
  \/ \E c \in Conns : Connection(c)
  \/ \E c \in Conns, n \in Names : SetUsername(c, n)
  \/ \E c \in Conns : Disconnect(c)
  \/ \E c \in Conns, msg \in ChatInputs, time \in Times : ChatMessage(c, msg, time)
  \/ \E c \in Conns, id \in RawIds : DeleteMessage(c, id)

SpecSession == Init /\ [][NextSession]_vars

\* the handlers that append to or remove from the log, with sockets that come and go
NextUpload ==
  \/ \E c \in Conns : Connection(c)
  \/ \E c \in Conns, n \in Names : SetUsername(c, n)
  \/ \E c \in Conns : Disconnect(c)
  \/ \E c \in Conns, msg \in ChatInputs, time \in Times : ChatMessage(c, msg, time)
  \/ \E c \in Conns, id \in RawIds : DeleteMessage(c, id)
  \/ \E c \in Conns, f \in FileNames : ImageUpload(c, f)
  \/ \E i \in 1 .. MaxPending, time \in Times : WriteDone(i, time)
  \/ \E i \in 1 .. MaxPending : WriteFail(i)

SpecUpload == Init /\ [][NextUpload]_vars

\* the handlers that require a bound name, with sockets that stay connected
NextSenders ==
  \/ \E c \in Conns : Connection(c)
  \/ \E c \in Conns, n \in Names : SetUsername(c, n)
  \/ \E c \in Conns, msg \in ChatInputs, time \in Times : ChatMessage(c, msg, time)
  \/ \E c \in Conns, id \in RawIds : DeleteMessage(c, id)
  \/ \E c \in Conns, id \in RawIds, text \in NewTexts : EditMessage(c, id, text)
  \/ \E c \in Conns, f \in FileNames : ImageUpload(c, f)
  \/ \E i \in 1 .. MaxPending, time \in Times : WriteDone(i, time)
  \/ \E i \in 1 .. MaxPending : WriteFail(i)

SpecSenders == Init /\ [][NextSenders]_vars

\* the session handlers and the typing relays
NextRelay ==
  \/ \E c \in Conns : Connection(c)
  \/ \E c \in Conns, n \in Names : SetUsername(c, n)
  \/ \E c \in Conns : Disconnect(c)
  \/ \E c \in Conns, msg \in ChatInputs, time \in Times : ChatMessage(c, msg, time)
  \/ \E c \in Conns, ev \in {"typing", "stop typing"}, n \in Names : Typing(c, ev, n)

SpecRelay == Init /\ [][NextRelay]_vars

\* the handlers that write the log, with sockets that stay connected
NextLog ==
  \/ \E c \in Conns : Connection(c)
  \/ \E c \in Conns, n \in Names : SetUsername(c, n)
  \/ \E c \in Conns, msg \in ChatInputs, time \in Times : ChatMessage(c, msg, time)
  \/ \E c \in Conns, id \in RawIds : DeleteMessage(c, id)
  \/ \E c \in Conns, id \in RawIds, text \in NewTexts : EditMessage(c, id, text)
  \/ \E c \in Conns, id \in RawIds : MarkSeen(c, id)
  \/ \E c \in Conns, f \in FileNames : ImageUpload(c, f)
  \/ \E i \in 1 .. MaxPending, time \in Times : WriteDone(i, time)

SpecLog == Init /\ [][NextLog]_vars

\* ------------------------------------------------------------- properties
Ids(log) == { log[i].id : i \in 1 .. Len(log) }

\* the log without the message whose id is n
Without(log, n) == SelectSeq(log, LAMBDA m : m.id # n)

\* the messages of the log whose id is n
WithId(log, n) == { i \in 1 .. Len(log) : log[i].id = n }

C1_IdsBelowCounter ==
  /\ \A i \in 1 .. Len(messagesHistory) : messagesHistory[i].id < messageCount
  /\ \A i, j \in 1 .. Len(messagesHistory) :
        i < j => messagesHistory[i].id < messagesHistory[j].id

C1_FreshStep ==
  /\ messageCount' >= messageCount
  /\ \A j \in 1 .. Len(messagesHistory') :
        messagesHistory'[j].id \notin Ids(messagesHistory)
          => /\ messagesHistory'[j].id >= messageCount
             /\ messagesHistory'[j].id < messageCount'
             /\ j = Len(messagesHistory')

\* C1: every id in the log is below the counter and ids in the log are strictly
\* increasing; in every step the counter does not decrease and a message that is
\* new in the log is its last one and has an id at or above the counter before
\* the step, hence above every id ever assigned, deleted ones included.
C1_IdsFresh == [](C1_IdsBelowCounter) /\ [][C1_FreshStep]_vars

\* a message was appended after an earlier one had been deleted
C1_Witness ==
  /\ messageCount = 2
  /\ Len(messagesHistory) = 1
  /\ messagesHistory[1].id = 1
  /\ inp.type \in {"chat message", "write done"}

C2_Post(c, id) ==
  LET n  == ToNumber(id)
      ok == \E i \in WithId(messagesHistory, n) : messagesHistory[i].user = currentUsername[c]
  IN  IF ok
      THEN /\ messagesHistory' = Without(messagesHistory, n)
           /\ Len(messagesHistory') = Len(messagesHistory) - 1
           /\ out' = << [ev |-> "delete message", payload |-> id, to |-> Connected] >>
      ELSE /\ messagesHistory' = messagesHistory
           /\ out' = <<>>

\* C2: a 'delete message' step succeeds exactly when a message with the (numeric)
\* id is in the log and its author is the sender's bound name; then that message
\* alone leaves the log, the rest keeps its order, and 'delete message(id)' goes
\* to every connected socket; otherwise the log is unchanged and nothing is emitted.
C2_Delete ==
  [][\A c \in Conns, id \in RawIds : DeleteMessage(c, id) => C2_Post(c, id)]_vars

\* a delete succeeded and left another message in the log
C2_Witness ==
  /\ inp.type = "delete message"
  /\ Len(out) = 1
  /\ out[1].ev = "delete message"
  /\ Len(messagesHistory) >= 1

\* the index of the message of the log whose id is n (ids are unique)
IndexOf(log, n) == CHOOSE i \in WithId(log, n) : TRUE

C3_Post(c, id, newText) ==
  LET n  == ToNumber(id)
      ok == \E i \in WithId(messagesHistory, n) : messagesHistory[i].user = currentUsername[c]
  IN  IF ok
      THEN LET i == IndexOf(messagesHistory, n)
           IN  /\ Len(messagesHistory') = Len(messagesHistory)
               /\ \A j \in 1 .. Len(messagesHistory) :
                     j # i => messagesHistory'[j] = messagesHistory[j]
               /\ messagesHistory'[i].text = newText
               /\ messagesHistory'[i].id = messagesHistory[i].id
               /\ messagesHistory'[i].user = messagesHistory[i].user
               /\ messagesHistory'[i].timestamp = messagesHistory[i].timestamp
               /\ messagesHistory'[i].replyToId = messagesHistory[i].replyToId
               /\ messagesHistory'[i].replyToText = messagesHistory[i].replyToText
               /\ messagesHistory'[i].seen = messagesHistory[i].seen
               /\ out' = << [ev |-> "edit message confirmed",
                             payload |-> [id |-> id, newText |-> newText],
                             to |-> Connected] >>
      ELSE /\ messagesHistory' = messagesHistory
           /\ out' = <<>>

\* C3: an 'edit message' step succeeds exactly when a message with the id is in
\* the log and its author is the sender's bound name; then only the text of that
\* message changes, to newText, and 'edit message confirmed' goes to every
\* connected socket; otherwise nothing changes and nothing is emitted.  The
\* counter, the registry and the bound names never change in such a step.
C3_Edit ==
  [][\A c \in Conns, id \in RawIds, t \in NewTexts :
       EditMessage(c, id, t) =>
         /\ C3_Post(c, id, t)
         /\ UNCHANGED <<messageCount, onlineUsers, currentUsername>>]_vars

\* an edit succeeded on a message that had already been seen
C3_Witness ==
  /\ inp.type = "edit message"
  /\ Len(out) = 1
  /\ LET n == ToNumber(out[1].payload.id)
     IN  /\ WithId(messagesHistory, n) # {}
         /\ messagesHistory[IndexOf(messagesHistory, n)].seen
         /\ messagesHistory[IndexOf(messagesHistory, n)].replyToId = NoId
         /\ messagesHistory[IndexOf(messagesHistory, n)].text = "yo"
  /\ Len(messagesHistory) = 2

C4_Post(c, id) ==
  LET n  == ToNumber(id)
      ok == \E i \in WithId(messagesHistory, n) :
              ~messagesHistory[i].seen /\ messagesHistory[i].user # currentUsername[c]
  IN  IF ok
      THEN /\ messagesHistory' =
                [messagesHistory EXCEPT ![IndexOf(messagesHistory, n)].seen = TRUE]
           /\ out' = << [ev |-> "message seen", payload |-> n, to |-> Connected] >>
      ELSE /\ messagesHistory' = messagesHistory
           /\ out' = <<>>

\* a message that stays in the log keeps a seen flag that is set
C4_Monotonic ==
  \A i \in 1 .. Len(messagesHistory), j \in 1 .. Len(messagesHistory') :
    (messagesHistory[i].id = messagesHistory'[j].id /\ messagesHistory[i].seen)
      => messagesHistory'[j].seen

\* 'message seen(id)' is emitted only by the step that sets the flag of id
C4_OnlyOnFlip ==
  \A k \in 1 .. Len(out') :
    out'[k].ev = "message seen" =>
      \E i \in 1 .. Len(messagesHistory) :
        /\ messagesHistory[i].id = out'[k].payload
        /\ ~messagesHistory[i].seen
        /\ i \in 1 .. Len(messagesHistory')
        /\ messagesHistory'[i].id = out'[k].payload
        /\ messagesHistory'[i].seen

\* C4: a 'mark seen' step succeeds exactly when a message with the id is in the
\* log, is not seen, and its author differs from the sender's bound name (an
\* unbound sender has none); then the flag is set and 'message seen(id)' goes to
\* every connected socket, otherwise nothing changes and nothing is emitted.  In
\* every step a set flag stays set, and 'message seen(id)' is emitted only by
\* the step that sets the flag, so at most once per id.
C4_MarkSeen ==
  [][/\ \A c \in Conns, id \in RawIds : MarkSeen(c, id) => C4_Post(c, id)
     /\ C4_Monotonic
     /\ C4_OnlyOnFlip]_vars

\* a socket without a name marked a message seen
C4_Witness ==
  /\ inp.type = "mark seen"
  /\ currentUsername[inp.conn] = Null
  /\ Len(out) = 1
  /\ out[1].ev = "message seen"
  /\ \E i \in 1 .. Len(messagesHistory) :
        messagesHistory[i].id = out[1].payload /\ messagesHistory[i].seen

\* C5: a step of the 'chat message', 'delete message', 'edit message' or
\* 'image upload' handler of a socket that has no name bound leaves the log, the
\* counter, the registry and the writes in flight unchanged and emits nothing.
C5_Unbound ==
  [][\A c \in Conns :
       ( /\ currentUsername[c] = Null
         /\ inp'.conn = c
         /\ inp'.type \in {"chat message", "delete message", "edit message", "image upload"} )
       => /\ UNCHANGED <<messagesHistory, messageCount, onlineUsers, pending>>
          /\ out' = <<>>]_vars

\* a socket without a name asked to delete while the log holds a message and
\* the other socket has a name
C5_Witness ==
  /\ inp.type = "delete message"
  /\ currentUsername[inp.conn] = Null
  /\ Len(messagesHistory) >= 1
  /\ out = <<>>

C6_Post(c, n) ==
  LET old == currentUsername[c]
  IN  /\ (old # Null /\ n # "" /\ n # old)
          => /\ old \notin DOMAIN onlineUsers'
             /\ n \in DOMAIN onlineUsers'
             /\ onlineUsers'[n] = c
      /\ (n # "" /\ n # old /\ n \in DOMAIN onlineUsers)
          => LET d == onlineUsers[n]
             IN  /\ onlineUsers'[n] = c
                 /\ d # c => /\ \A k \in 1 .. Len(out') : d \notin out'[k].to
                              /\ currentUsername'[d] = currentUsername[d]

C7_Claim ==
  [][\A c \in Conns, n \in Names :
       SetUsername(c, n) =>
         IF n # "" /\ n # currentUsername[c]
         THEN /\ currentUsername'[c] = n
              /\ n \in DOMAIN onlineUsers'
              /\ onlineUsers'[n] = c
         ELSE UNCHANGED <<currentUsername, onlineUsers>>]_vars

\* C7 as stated: every name, the empty one included, is bound and registered
C7_Original ==
  [][\A c \in Conns, n \in Names :
       SetUsername(c, n) =>
         /\ currentUsername'[c] = n
         /\ n \in DOMAIN onlineUsers'
         /\ onlineUsers'[n] = c]_vars

\* a socket claimed the whitespace name while the other connected socket holds it
C7_Witness ==
  /\ inp.type = "set username"
  /\ Len(out) = 1
  /\ currentUsername[inp.conn] = " "
  /\ onlineUsers[" "] = inp.conn
  /\ \E d \in Conns \ {inp.conn} : currentUsername[d] = " " /\ status[d] = "connected"

\* C8 (amended): a 'set username' with a non-empty name that differs from the
\* sender's bound name is answered with exactly one 'load history', to the sender
\* only, whose payload is the log as it is; any other 'set username' is answered
\* with nothing.  No other socket receives anything, and the log is unchanged.
C8_History ==
  [][\A c \in Conns, n \in Names :
       SetUsername(c, n) =>
         /\ messagesHistory' = messagesHistory
         /\ IF n # "" /\ n # currentUsername[c]
            THEN out' = << [ev |-> "load history", payload |-> messagesHistory', to |-> {c}] >>
            ELSE out' = <<>>]_vars

\* C8 as stated: every 'set username' is answered with one 'load history'
C8_Original ==
  [][\A c \in Conns, n \in Names :
       SetUsername(c, n) =>
         /\ Len(out') = 1
         /\ out'[1].ev = "load history"
         /\ out'[1].payload = messagesHistory'
         /\ out'[1].to = {c}]_vars

\* a history with a gap was sent to one of two connected sockets
C8_Witness ==
  /\ inp.type = "set username"
  /\ Len(out) = 1
  /\ out[1].ev = "load history"
  /\ Len(out[1].payload) = 1
  /\ out[1].payload[1].id = 1
  /\ Connected = Conns

\* C9: a 'chat message' step of a socket with a bound name appends one message:
\* its id is the counter before the step, its author the sender's bound name,
\* its text and reply fields those of the payload, its seen flag false; the
\* counter grows by one and the same message goes to every connected socket,
\* the sender included.  The first id of a run is 0.
C9_Append ==
  /\ [](messageCount = 0 => messagesHistory = <<>>)
  /\ [][\A c \in Conns, msg \in ChatInputs, time \in Times :
          (ChatMessage(c, msg, time) /\ currentUsername[c] # Null) =>
            LET m == messagesHistory'[Len(messagesHistory')]
            IN  /\ Len(messagesHistory') = Len(messagesHistory) + 1
                /\ SubSeq(messagesHistory', 1, Len(messagesHistory)) = messagesHistory
                /\ m.id = messageCount
                /\ m.user = currentUsername[c]
                /\ m.text = msg.text
                /\ m.replyToId = msg.replyToId
                /\ m.replyToText = msg.replyToText
                /\ m.seen = FALSE
                /\ messageCount' = messageCount + 1
                /\ out' = << [ev |-> "chat message", payload |-> m, to |-> Connected] >>
                /\ c \in out'[1].to]_vars

\* the first message of a run reached two connected sockets
C9_Witness ==
  /\ inp.type = "chat message"
  /\ messageCount = 1
  /\ Len(out) = 1
  /\ out[1].payload.id = 0
  /\ out[1].to = Conns
  /\ messagesHistory = << out[1].payload >>

\* C10: every registry entry maps its name to a socket that is connected and
\* bound to that name.
C10_Registry ==
  \A n \in DOMAIN onlineUsers :
    /\ status[onlineUsers[n]] = "connected"
    /\ currentUsername[onlineUsers[n]] = n

\* two connected sockets are bound to one name and the registry holds it
C10_Witness ==
  \E n \in DOMAIN onlineUsers :
    \E d \in Conns \ {onlineUsers[n]} :
      currentUsername[d] = n /\ status[d] = "connected"

\* C11: a 'disconnect' step of socket c, and a 'set username' step of c with
\* name n, leave every registry entry of another socket as it is (the entry of
\* n itself may pass to c, which claims it).
C11_OwnEntryOnly ==
  [][\A c \in Conns :
       /\ Disconnect(c) =>
            \A k \in DOMAIN onlineUsers :
              onlineUsers[k] # c => (k \in DOMAIN onlineUsers' /\ onlineUsers'[k] = onlineUsers[k])
       /\ \A n \in Names :
            SetUsername(c, n) =>
              \A k \in DOMAIN onlineUsers \ {n} :
                onlineUsers[k] # c => (k \in DOMAIN onlineUsers' /\ onlineUsers'[k] = onlineUsers[k])]_vars

\* C12: a 'disconnect' step of a socket with a bound name emits exactly one
\* 'user disconnected' carrying that name, to every socket that remains
\* connected; a 'disconnect' step of a socket without a name emits nothing and
\* leaves the registry unchanged.
C12_Disconnect ==
  [][\A c \in Conns :
       Disconnect(c) =>
         IF currentUsername[c] # Null
         THEN out' = << [ev |-> "user disconnected", payload |-> currentUsername[c],
                         to |-> Connected \ {c}] >>
         ELSE out' = <<>> /\ onlineUsers' = onlineUsers]_vars

\* a named socket left while the other socket, which has no name, was connected
C12_Witness ==
  /\ inp.type = "disconnect"
  /\ Len(out) = 1
  /\ out[1].ev = "user disconnected"
  /\ out[1].payload = currentUsername[inp.conn]
  /\ \E d \in out[1].to : currentUsername[d] = Null

\* C13: a 'typing' or 'stop typing' step of any connected socket emits the same
\* event with the same payload to every connected socket but the sender, and
\* leaves registry, bound names, log, counter and writes in flight unchanged.
C13_Relay ==
  [][\A c \in Conns, ev \in {"typing", "stop typing"}, n \in Names :
       Typing(c, ev, n) =>
         /\ out' = << [ev |-> ev, payload |-> n, to |-> Connected \ {c}] >>
         /\ c \notin out'[1].to
         /\ UNCHANGED <<onlineUsers, currentUsername, messagesHistory,
                        messageCount, pending>>]_vars

\* a socket without a name sent 'stop typing' and the other socket received it
C13_Witness ==
  /\ inp.type = "stop typing"
  /\ currentUsername[inp.conn] = Null
  /\ Len(out) = 1
  /\ out[1].ev = "stop typing"
  /\ out[1].to = Conns \ {inp.conn}
  /\ Len(messagesHistory) >= 1

\* file names whose extension is not one of png, jpg, jpeg, gif, webp, avif
C14_Refused == { <<"p", ".", "E", "X", "E">> }

\* C14: an 'image upload' step with a refused file name starts no write, and the
\* step of a write that failed only drops that write (no retry); both leave the
\* log, the counter, the registry and the bound names unchanged and emit nothing.
C14_NoMessage ==
  [][/\ \A c \in Conns, f \in C14_Refused :
          ImageUpload(c, f) =>
            /\ UNCHANGED <<messagesHistory, messageCount, onlineUsers, currentUsername, pending>>
            /\ out' = <<>>
     /\ \A i \in 1 .. Len(pending) :
          WriteFail(i) =>
            /\ UNCHANGED <<messagesHistory, messageCount, onlineUsers, currentUsername>>
            /\ out' = <<>>
            /\ Len(pending') = Len(pending) - 1]_vars

\* a socket with a name sent an upload and no write is in flight: it was refused
C14_Witness ==
  /\ inp.type = "image upload"
  /\ currentUsername[inp.conn] # Null
  /\ pending = <<>>
  /\ out = <<>>
  /\ Len(messagesHistory) >= 1

\* the text of an image message
C15_IsImage(m) == m.text = "/uploads/f.png"

C16_Sorted(log) ==
  \A i, j \in 1 .. Len(log) : i < j => log[i].id < log[j].id

C17_LogUntouched ==
  [][/\ \A c \in Conns, n \in Names :
          SetUsername(c, n) =>
            /\ UNCHANGED <<messagesHistory, messageCount>>
            /\ \A i \in 1 .. Len(messagesHistory) :
                 messagesHistory[i].user = currentUsername[c]
                   => messagesHistory'[i].user = currentUsername[c]
     /\ \A c \in Conns :
          Disconnect(c) => UNCHANGED <<messagesHistory, messageCount>>]_vars

\* a socket has taken a new name while the log holds a message under its former
\* name: the other socket never had a name, so the message is the renamer's
C17_Witness ==
  /\ inp.type = "set username"
  /\ Len(out) = 1
  /\ out[1].payload = messagesHistory
  /\ \E d \in Conns \ {inp.conn} : status[d] = "connected" /\ currentUsername[d] = Null
  /\ \E i \in 1 .. Len(messagesHistory) :
        messagesHistory[i].user # currentUsername[inp.conn]

\* C18: the author of an image message is the name its socket had when the
\* 'image upload' event was received.  The step that completes the write
\* records the name the socket has at that step, so the claim says that this
\* name does not change for as long as the write is in flight.
C18_AuthorAtUpload ==
  [][/\ \A i \in 1 .. Len(pending), time \in Times :
          WriteDone(i, time) =>
            messagesHistory'[Len(messagesHistory')].user = currentUsername[pending[i].conn]
     /\ \A i \in 1 .. Len(pending) :
          (i \in 1 .. Len(pending') /\ pending'[i] = pending[i])
            => currentUsername'[pending[i].conn] = currentUsername[pending[i].conn]]_vars

\* C19 as stated: once socket c has disconnected, no step made for c appends a
\* message to the log or broadcasts one.
C19_Original ==
  [][\A c \in Conns :
       (status[c] = "disconnected" /\ inp'.conn = c)
         => /\ messagesHistory' = messagesHistory
            /\ out' = <<>>]_vars

\* C19 (amended): a socket that has disconnected stays disconnected and none of
\* its event handlers runs again: the only steps made for it complete the
\* writes it left in flight.  Such a write is not cancelled: when it succeeds,
\* the image message is appended under the name the socket last had and is
\* broadcast to the sockets still connected, never to the one that left; when
\* it fails, nothing changes.
C19_AfterDisconnect ==
  [][\A c \in Conns :
       status[c] = "disconnected" =>
         /\ status'[c] = "disconnected"
         /\ currentUsername'[c] = currentUsername[c]
         /\ inp'.conn = c =>
              /\ inp'.type \in {"write done", "write failed"}
              /\ \E i \in 1 .. Len(pending) :
                   pending[i].conn = c /\ pending' = Splice(pending, i)
              /\ inp'.type = "write failed" =>
                   /\ UNCHANGED <<messagesHistory, messageCount>>
                   /\ out' = <<>>
              /\ inp'.type = "write done" =>
                   LET m == messagesHistory'[Len(messagesHistory')]
                   IN  /\ Len(messagesHistory') = Len(messagesHistory) + 1
                       /\ messagesHistory' = Append(messagesHistory, m)
                       /\ C15_IsImage(m)
                       /\ m.user = currentUsername[c]
                       /\ m.id = messageCount
                       /\ out' = << [ev |-> "chat message", payload |-> m,
                                     to |-> Connected \ {c}] >>]_vars

\* the write of a socket that has left has completed, and its image message was
\* broadcast to a socket that is still connected
C19_Witness ==
  /\ inp.type = "write done"
  /\ status[inp.conn] = "disconnected"
  /\ Len(out) = 1
  /\ out[1].to # {}
  /\ out[1].payload.user = currentUsername[inp.conn]
  /\ messagesHistory[Len(messagesHistory)] = out[1].payload

\* a client's copy of the log after one delivered event
C20_Apply(log, e) ==
  CASE e.ev = "load history"   -> e.payload
    [] e.ev = "chat message"   -> Append(log, e.payload)
    [] e.ev = "delete message" -> Without(log, ToNumber(e.payload))
    [] e.ev = "edit message confirmed" ->
         [i \in 1 .. Len(log) |->
            IF log[i].id = ToNumber(e.payload.id)
            THEN [log[i] EXCEPT !.text = e.payload.newText]
            ELSE log[i]]
    [] e.ev = "message seen"   ->
         [i \in 1 .. Len(log) |->
            IF log[i].id = e.payload THEN [log[i] EXCEPT !.seen = TRUE] ELSE log[i]]
    [] OTHER                   -> log

\* the copy after the events of es that are addressed to socket c, in order
RECURSIVE C20_Replay(_, _, _)
C20_Replay(log, es, c) ==
  IF es = <<>> THEN log
  ELSE C20_Replay(IF c \in Head(es).to THEN C20_Apply(log, Head(es)) ELSE log,
                  Tail(es), c)

\* C20: a socket that has a snapshot holds a copy equal to the server's log, and
\* every step keeps it so: for a socket that is connected before and after the
\* step and has a name after it, applying the events the step delivers to it to
\* the log before the step (the copy it held; a snapshot replaces the copy)
\* gives the log after the step.  A step that changes the log emits exactly one
\* of the four log events, to every connected socket.
C20_ReplicaFollows ==
  [][/\ \A c \in Conns :
          (status[c] = "connected" /\ status'[c] = "connected" /\ currentUsername'[c] # Null)
            => C20_Replay(IF currentUsername[c] # Null THEN messagesHistory ELSE <<>>,
                          out', c) = messagesHistory'
     /\ messagesHistory' # messagesHistory
          => /\ Len(out') = 1
             /\ out'[1].ev \in {"chat message", "delete message",
                                "edit message confirmed", "message seen"}
             /\ out'[1].to = { c \in Conns : status'[c] = "connected" }]_vars

\* two sockets with a name have been sent the deletion of message 1, its id
\* given as a string, after message 0 was marked seen and then edited
C20_Witness ==
  /\ inp.type = "delete message"
  /\ Len(out) = 1
  /\ out[1].payload = StrId("1")
  /\ out[1].to = Conns
  /\ \A c \in Conns : currentUsername[c] # Null
  /\ Len(messagesHistory) = 1
  /\ messagesHistory[1].id = 0
  /\ messagesHistory[1].seen
  /\ messagesHistory[1].text = "yo"
  /\ messagesHistory[1].replyToId = NoId
====
